---------------------------- MODULE Spec2Model ----------------------------
(***************************************************************************)
(* Model of scripts/generate-sounds.py of scale-climber: the waveform      *)
(* generators (generate_tone, generate_multi_tone, generate_sweep), the    *)
(* envelope (apply_envelope), the exporter (save_as_opus) and the batch    *)
(* run of the eight cues (main).                                           *)
(*                                                                         *)
(* Real numbers are exact rationals <<n, d>> in lowest terms with d > 0.   *)
(* A sine sample volume * sin(2*pi*p) is kept as the term [amp, ph] with   *)
(* p in cycles, and two terms are compared by the value of the sine.       *)
(* Durations fed to the functions are k / 2^16 seconds and 1/8000 s, and   *)
(* main uses its own milliseconds; for all of them SAMPLE_RATE * duration  *)
(* is exact in float64, so int() of the code is the truncation of the      *)
(* rational.                                                               *)
(***************************************************************************)
EXTENDS Integers, Sequences, FiniteSets

VARIABLES pc, cue, ffmpeg, outdir, log, attempts, handed, files, op, args, result

vars == <<pc, cue, ffmpeg, outdir, log, attempts, handed, files, op, args, result>>

(***************************************************************************)
(* Bounds of the model.                                                    *)
(***************************************************************************)
MaxRc == 1        \* encoder exit statuses are 0..MaxRc
MaxTicks == 7     \* durations are 0..MaxTicks ticks of 1/2^16 s
MaxLen == 5       \* input waveforms of apply_envelope have 0..MaxLen samples
MaxAmp == 6       \* exporter input samples are -MaxAmp/4 .. MaxAmp/4

(***************************************************************************)
(* Program constants.                                                      *)
(***************************************************************************)
SAMPLE_RATE == 48000
PCM_SCALE == 32767
NumCues == 8

TickRate == 2^16

(***************************************************************************)
(* Exact rational arithmetic standing for the float64 arithmetic.          *)
(***************************************************************************)
Abs(x) == IF x < 0 THEN -x ELSE x

RECURSIVE GCD(_, _)
GCD(a, b) == IF b = 0 THEN a ELSE GCD(b, a % b)

Rat(n, d) ==
    LET g == GCD(Abs(n), Abs(d))
        s == IF d < 0 THEN -1 ELSE 1
    IN  <<(s * n) \div g, (s * d) \div g>>

Zero == <<0, 1>>
One == <<1, 1>>

RatAdd(x, y) ==
    LET g == GCD(x[2], y[2])
    IN  Rat(x[1] * (y[2] \div g) + y[1] * (x[2] \div g), (x[2] \div g) * y[2])
RatNeg(x) == <<-x[1], x[2]>>
RatSub(x, y) == RatAdd(x, RatNeg(y))
RatMul(x, y) == Rat(x[1] * y[1], x[2] * y[2])
RatDivInt(x, k) == Rat(x[1], x[2] * k)
RatFrac(x) == Rat(x[1] % x[2], x[2])

\* int(x): truncation toward zero.
IntOf(x) == IF x[1] >= 0 THEN x[1] \div x[2] ELSE -((-x[1]) \div x[2])

\* round(x): nearest integer, ties to even, for x >= 0.
RoundOf(x) ==
    LET fl == x[1] \div x[2]
        twice == 2 * (x[1] % x[2])
    IN  IF twice < x[2] THEN fl
        ELSE IF twice > x[2] THEN fl + 1
        ELSE IF fl % 2 = 0 THEN fl ELSE fl + 1

\* samples = int(SAMPLE_RATE * duration)
SamplesOf(duration) == IntOf(RatMul(Rat(SAMPLE_RATE, 1), duration))

\* Mutant of Linspace: the endpoint is left out, as with endpoint=False.
LinspaceDropsEndpoint(start, stop, num, j) ==
    RatAdd(start, RatMul(Rat(j, 1), RatDivInt(RatSub(stop, start), num)))

\* np.linspace(start, stop, num)[j], j = 0..num-1, endpoint included.
Linspace(start, stop, num, j) ==
    IF num = 1 THEN start
    ELSE IF j = num - 1 THEN stop
    ELSE RatAdd(start, RatMul(Rat(j, 1), RatDivInt(RatSub(stop, start), num - 1)))

\* np.linspace(start, stop, num, False)[j]: endpoint excluded.
LinspaceOpen(start, stop, num, j) ==
    RatAdd(start, RatMul(Rat(j, 1), RatDivInt(RatSub(stop, start), num)))

(***************************************************************************)
(* Waveform generators.  A sample is a sequence of sine terms               *)
(* [amp |-> a, ph |-> p] standing for the sum of a * sin(2*pi*p).           *)
(***************************************************************************)
\* generate_tone: t = linspace(0, duration, samples, False);
\* wave = volume * sin(2*pi*frequency*t)
GenerateTone(frequency, duration, volume) ==
    LET samples == SamplesOf(duration)
    IN  [i \in 1..samples |->
            <<[amp |-> volume,
               ph |-> RatMul(Rat(frequency, 1),
                             LinspaceOpen(Zero, duration, samples, i - 1))]>>]

\* generate_multi_tone: zeros(samples), plus one term of volume/len per frequency.
GenerateMultiTone(frequencies, duration, volume) ==
    LET samples == SamplesOf(duration)
    IN  [i \in 1..samples |->
            [k \in 1..Len(frequencies) |->
                [amp |-> RatDivInt(volume, Len(frequencies)),
                 ph |-> RatMul(Rat(frequencies[k], 1),
                               LinspaceOpen(Zero, duration, samples, i - 1))]]]

\* np.cumsum(np.linspace(start_freq, end_freq, samples))[i - 1], i = 1..samples
RECURSIVE CumSumFreq(_, _, _, _)
CumSumFreq(start_freq, end_freq, samples, i) ==
    IF i = 0 THEN Zero
    ELSE RatAdd(CumSumFreq(start_freq, end_freq, samples, i - 1),
                Linspace(Rat(start_freq, 1), Rat(end_freq, 1), samples, i - 1))

\* generate_sweep: phase = 2*pi*cumsum(freq)/SAMPLE_RATE; wave = volume*sin(phase)
GenerateSweep(start_freq, end_freq, duration, volume) ==
    LET samples == SamplesOf(duration)
    IN  [i \in 1..samples |->
            <<[amp |-> volume,
               ph |-> RatDivInt(CumSumFreq(start_freq, end_freq, samples, i),
                                SAMPLE_RATE)]>>]

\* sin(2*pi*a) = sin(2*pi*b): a = b or a + b = 1/2, modulo one cycle.
SinEq(a, b) ==
    \/ RatFrac(RatSub(a, b)) = Zero
    \/ RatFrac(RatAdd(a, b)) = <<1, 2>>

\* Equality of the values of two single-term samples.
TermEq(x, y) ==
    \/ x.amp = Zero /\ y.amp = Zero
    \/ x.amp = y.amp /\ SinEq(x.ph, y.ph)
    \/ x.amp = RatNeg(y.amp) /\ SinEq(x.ph, RatNeg(y.ph))
    \/ RatFrac(RatMul(Rat(2, 1), x.ph)) = Zero
        /\ RatFrac(RatMul(Rat(2, 1), y.ph)) = Zero

(***************************************************************************)
(* apply_envelope.                                                         *)
(***************************************************************************)
\* Mutant of EnvelopeGain: the envelope starts as np.zeros(samples).
EnvelopeGainFromZeros(n, a, r, i) ==
    IF r > 0 /\ i > n - r THEN Linspace(One, Zero, r, i - (n - r) - 1)
    ELSE IF a > 0 /\ i <= a THEN Linspace(Zero, One, a, i - 1)
    ELSE Zero

\* envelope[i] (i = 1..n) after the two slice assignments: ones, then the
\* attack ramp written over the first a entries, then the release ramp
\* written over the last r entries.
EnvelopeGain(n, a, r, i) ==
    IF r > 0 /\ i > n - r THEN Linspace(One, Zero, r, i - (n - r) - 1)
    ELSE IF a > 0 /\ i <= a THEN Linspace(Zero, One, a, i - 1)
    ELSE One

\* A slice assignment raises ValueError when the ramp is longer than the
\* slice it is written to, unless the ramp has one element (it broadcasts).
EnvelopeRaises(n, a, r) == (a > n /\ a > 1) \/ (r > n /\ r > 1)

ApplyEnvelope(wave, attack, release) ==
    LET n == Len(wave)
        a == SamplesOf(attack)
        r == SamplesOf(release)
    IN  IF EnvelopeRaises(n, a, r)
        THEN [ok |-> FALSE, wave |-> <<>>]
        ELSE [ok |-> TRUE,
              wave |-> [i \in 1..n |-> RatMul(wave[i], EnvelopeGain(n, a, r, i))]]

(***************************************************************************)
(* save_as_opus: the 16-bit conversion.                                    *)
(***************************************************************************)
\* The low 16 bits of t, read as a signed 16-bit integer.
Wrap16(t) == ((t + 32768) % 65536) - 32768

\* np.int16(x): a C cast of the float64 x.  Inside the int16 range it
\* truncates toward zero.  Outside it the cast is undefined in C: the builds
\* either keep the low 16 bits of the 32-bit truncation (scalar conversion
\* then narrowing) or saturate (a saturating pack in a vectorised loop).
Int16Cast(x) ==
    LET t == IntOf(x)
    IN  IF -32768 <= t /\ t <= 32767 THEN {t}
        ELSE {Wrap16(t), IF t < 0 THEN -32768 ELSE 32767}

\* wave_normalized = np.int16(wave * 32767): every array the cast can yield.
RECURSIVE Normalize(_)
Normalize(wave) ==
    IF wave = <<>> THEN {<<>>}
    ELSE {<<h>> \o t : h \in Int16Cast(RatMul(Head(wave), Rat(PCM_SCALE, 1))),
                       t \in Normalize(Tail(wave))}

(***************************************************************************)
(* main: the eight cues.                                                   *)
(***************************************************************************)
Secs(ms) == Rat(ms, 1000)

Part(gen, freqs, dur, vol, attack, release) ==
    [gen |-> gen, freqs |-> freqs, dur |-> dur, vol |-> vol,
     attack |-> attack, release |-> release]

\* The generator call(s) and the envelope applied to each, per cue.
CueParts(c) ==
    CASE c = 1 -> <<Part("multi_tone", <<800, 1000, 1200>>, Secs(300), Rat(25, 100), Secs(10), Secs(100))>>
      [] c = 2 -> <<Part("tone", <<600>>, Secs(300), Rat(3, 10), Secs(10), Secs(100))>>
      [] c = 3 -> <<Part("tone", <<400>>, Secs(300), Rat(3, 10), Secs(20), Secs(100))>>
      [] c = 4 -> <<Part("multi_tone", <<200, 210>>, Secs(200), Rat(3, 10), Secs(10), Secs(50))>>
      [] c = 5 -> <<Part("sweep", <<400, 800>>, Secs(400), Rat(25, 100), Secs(10), Secs(100))>>
      [] c = 6 -> <<Part("tone", <<523>>, Secs(150), Rat(3, 10), Secs(10), Secs(50)),
                    Part("tone", <<659>>, Secs(150), Rat(3, 10), Secs(10), Secs(50)),
                    Part("tone", <<784>>, Secs(300), Rat(3, 10), Secs(10), Secs(150))>>
      [] c = 7 -> <<Part("sweep", <<400, 200>>, Secs(500), Rat(25, 100), Secs(20), Secs(150))>>
      [] c = 8 -> <<Part("tone", <<1200>>, Secs(50), Rat(2, 10), Secs(5), Secs(20))>>

CueFile(c) ==
    CASE c = 1 -> "perfect.opus"
      [] c = 2 -> "great.opus"
      [] c = 3 -> "ok.opus"
      [] c = 4 -> "miss.opus"
      [] c = 5 -> "combo.opus"
      [] c = 6 -> "victory.opus"
      [] c = 7 -> "failure.opus"
      [] c = 8 -> "click.opus"

\* apply_envelope(generate_*(.., dur, ..), attack, release), kept as its
\* length and the envelope gain of its first and of its last sample.
EnvelopedPart(p) ==
    LET n == SamplesOf(p.dur)
        a == SamplesOf(p.attack)
        r == SamplesOf(p.release)
    IN  [gen |-> p.gen, len |-> n,
         head |-> EnvelopeGain(n, a, r, 1),
         tail |-> EnvelopeGain(n, a, r, n)]

\* The waveform main hands to save_as_opus for cue c: its enveloped parts in
\* order (np.concatenate for the arpeggio, one part otherwise).
CueWave(c) == [k \in 1..Len(CueParts(c)) |-> EnvelopedPart(CueParts(c)[k])]

RECURSIVE WaveLen(_)
WaveLen(w) == IF w = <<>> THEN 0 ELSE Head(w).len + WaveLen(Tail(w))

\* The lines printed; names holds the file names the text contains.
HeaderMsg == [text |-> "Generating Scale Climber sound effects...", names |-> {}, rc |-> 0]
OutputDirMsg == [text |-> "Output directory: {OUTPUT_DIR}", names |-> {}, rc |-> 0]
\* Mutant of WarningMsg: the warning does not say which file.
WarningMsgUnnamed(rc, filename) ==
    [text |-> "Warning: ffmpeg returned {rc}", names |-> {}, rc |-> rc]

WarningMsg(rc, filename) ==
    [text |-> "Warning: ffmpeg returned {rc} for {filename}", names |-> {filename}, rc |-> rc]
GeneratedMsg(filename) ==
    [text |-> "Generated {filename}", names |-> {filename}, rc |-> 0]
NotFoundMsg ==
    [text |-> "Error: ffmpeg not found. Please install ffmpeg to generate audio files.",
     names |-> {}, rc |-> 0]
SummaryMsg == [text |-> "All sound effects generated successfully!", names |-> {}, rc |-> 0]
SavedToMsg == [text |-> "Files saved to: {OUTPUT_DIR}", names |-> {}, rc |-> 0]

\* save_as_opus(wave, filename), wave of nsamples samples, when Popen starts the encoder (started) and
\* the encoder exits with rc, or Popen raises FileNotFoundError.
SaveAsOpus(nsamples, filename, started, rc) ==
    [ret |-> started,
     msg |-> IF ~started THEN NotFoundMsg
             ELSE IF rc # 0 THEN WarningMsg(rc, filename)
             ELSE GeneratedMsg(filename),
     attempt |-> [file |-> filename,
                  outcome |-> IF ~started THEN "missing"
                              ELSE IF rc # 0 THEN "nonzero" ELSE "ok",
                  nsamples |-> nsamples],
     written |-> IF started /\ rc = 0 THEN {filename} ELSE {}]

\* main discards the value save_as_opus returns and goes on to the next cue.
AfterExport(c, ret) ==
    IF c < NumCues THEN [pc |-> "export", cue |-> c + 1]
    ELSE [pc |-> "summary", cue |-> c]

Init ==
    /\ pc = "start"
    /\ cue = 0
    /\ ffmpeg \in BOOLEAN
    /\ outdir \in BOOLEAN
    /\ log = <<>>
    /\ attempts = <<>>
    /\ handed = <<>>
    /\ files = {}
    /\ op = "main"
    /\ args = <<>>
    /\ result = <<>>

MainStart ==
    /\ pc = "start"
    /\ log' = log \o <<HeaderMsg, OutputDirMsg>>
    /\ outdir' = TRUE
    /\ pc' = "export"
    /\ cue' = 1
    /\ UNCHANGED <<ffmpeg, attempts, handed, files, op, args, result>>

ExportCue ==
    /\ pc = "export"
    /\ \E rc \in 0..MaxRc :
         LET wave == CueWave(cue)
             s == SaveAsOpus(WaveLen(wave), CueFile(cue), ffmpeg, rc)
             nxt == AfterExport(cue, s.ret)
         IN  /\ handed' = Append(handed, wave)
             /\ log' = Append(log, s.msg)
             /\ attempts' = Append(attempts, s.attempt)
             /\ files' = files \cup s.written
             /\ pc' = nxt.pc
             /\ cue' = nxt.cue
    /\ UNCHANGED <<ffmpeg, outdir, op, args, result>>

MainSummary ==
    /\ pc = "summary"
    /\ log' = log \o <<SummaryMsg, SavedToMsg>>
    /\ pc' = "done"
    /\ UNCHANGED <<cue, ffmpeg, outdir, attempts, handed, files, op, args, result>>

Next == MainStart \/ ExportCue \/ MainSummary

Spec == Init /\ [][Next]_vars

(***************************************************************************)
(* The functions called on their own, on inputs drawn by Init.             *)
(***************************************************************************)
Durs == {Rat(k, TickRate) : k \in 0..MaxTicks}
\* 0.000125 s is 6 samples exactly.
GenDurs == Durs \cup {Rat(1, 8000)}
Freqs == {0, 600, 12000, 24000}
Vols == {Rat(3, 10), Rat(1, 4)}
SampleVals == {Rat(-1, 1), Rat(1, 2)}
EnvWaves == UNION {[1..n -> SampleVals] : n \in 0..MaxLen}
PcmVals == {Rat(k, 4) : k \in (-MaxAmp)..MaxAmp}
PcmWaves == UNION {[1..n -> PcmVals] : n \in 1..2}

Idle ==
    /\ pc = "call"
    /\ cue = 0
    /\ outdir = TRUE
    /\ log = <<>>
    /\ attempts = <<>>
    /\ handed = <<>>
    /\ files = {}
    /\ result = <<>>

InitEnvelope ==
    /\ Idle
    /\ ffmpeg = TRUE
    /\ op = "apply_envelope"
    /\ args \in [wave : EnvWaves, attack : Durs, release : Durs]

CallApplyEnvelope ==
    /\ pc = "call"
    /\ result' = ApplyEnvelope(args.wave, args.attack, args.release)
    /\ pc' = "ret"
    /\ UNCHANGED <<cue, ffmpeg, outdir, log, attempts, handed, files, op, args>>

NextEnvelope == CallApplyEnvelope

SpecEnvelope == InitEnvelope /\ [][NextEnvelope]_vars

InitGen ==
    /\ Idle
    /\ ffmpeg = TRUE
    /\ op = "none"
    /\ args \in [f1 : Freqs, f2 : Freqs, dur : GenDurs, vol : Vols]

CallGenerateTone ==
    /\ pc = "call"
    /\ result' = GenerateTone(args.f1, args.dur, args.vol)
    /\ op' = "generate_tone"
    /\ pc' = "ret"
    /\ UNCHANGED <<cue, ffmpeg, outdir, log, attempts, handed, files, args>>

CallGenerateMultiTone ==
    /\ pc = "call"
    /\ result' = GenerateMultiTone(<<args.f1, args.f2>>, args.dur, args.vol)
    /\ op' = "generate_multi_tone"
    /\ pc' = "ret"
    /\ UNCHANGED <<cue, ffmpeg, outdir, log, attempts, handed, files, args>>

CallGenerateSweep ==
    /\ pc = "call"
    /\ result' = GenerateSweep(args.f1, args.f2, args.dur, args.vol)
    /\ op' = "generate_sweep"
    /\ pc' = "ret"
    /\ UNCHANGED <<cue, ffmpeg, outdir, log, attempts, handed, files, args>>

NextGen == CallGenerateTone \/ CallGenerateMultiTone \/ CallGenerateSweep

SpecGen == InitGen /\ [][NextGen]_vars

InitPcm ==
    /\ Idle
    /\ ffmpeg \in BOOLEAN
    /\ op = "save_as_opus"
    /\ args \in [wave : PcmWaves, filename : {"test.opus"}]

CallSaveAsOpus ==
    /\ pc = "call"
    /\ \E rc \in 0..MaxRc, pcm \in Normalize(args.wave) :
         LET s == SaveAsOpus(Len(args.wave), args.filename, ffmpeg, rc)
         IN  /\ result' = [ret |-> s.ret, pcm |-> pcm]
             /\ handed' = Append(handed, args.wave)
             /\ log' = Append(log, s.msg)
             /\ attempts' = Append(attempts, s.attempt)
             /\ files' = files \cup s.written
    /\ pc' = "ret"
    /\ UNCHANGED <<cue, ffmpeg, outdir, op, args>>

NextPcm == CallSaveAsOpus

SpecPcm == InitPcm /\ [][NextPcm]_vars

(***************************************************************************)
(* Claims about the batch run (Spec).                                      *)
(***************************************************************************)
IsFailureMsg(m) ==
    m.text \in {"Warning: ffmpeg returned {rc} for {filename}",
                "Warning: ffmpeg returned {rc}",
                "Error: ffmpeg not found. Please install ffmpeg to generate audio files."}

\* C1 (as claimed): once an export has hit the missing encoder, no later cue
\* is exported and no output file is written: the attempt that found the
\* encoder missing is the last attempt of the run.
C1_MissingEncoderIsFatal ==
    \A i \in 1..Len(attempts) :
        attempts[i].outcome = "missing" => (i = Len(attempts) /\ files = {})

\* C2: the cues are attempted one after the other in the order of the batch;
\* every cue whose encoder exited nonzero has a warning in the log that names
\* its file and carries the status; and the run is never cut short: while
\* exporting, the cues before the current one have all been attempted, and the
\* summary is reached only with all eight attempted.
C2_NonzeroExitContinues ==
    /\ Len(attempts) <= NumCues
    /\ \A i \in 1..Len(attempts) :
         /\ attempts[i].file = CueFile(i)
         /\ attempts[i].outcome = "nonzero" =>
              \E j \in 1..Len(log) :
                  /\ log[j].text = "Warning: ffmpeg returned {rc} for {filename}"
                  /\ log[j].names = {attempts[i].file}
                  /\ log[j].rc # 0
    /\ pc = "export" => cue = Len(attempts) + 1
    /\ pc \in {"summary", "done"} => Len(attempts) = NumCues

\* A finished run in which the first and the last cue failed with a nonzero
\* status and the second succeeded.
C2_Witness ==
    /\ pc = "done"
    /\ Len(attempts) = NumCues
    /\ attempts[1].outcome = "nonzero"
    /\ attempts[2].outcome = "ok"
    /\ attempts[NumCues].outcome = "nonzero"

\* C3 (as claimed): every export that failed, by a missing encoder or by a
\* nonzero exit, has a failure message in the log that names its file.
C3_EveryFailureNamesFile ==
    \A i \in 1..Len(attempts) :
        attempts[i].outcome # "ok" =>
            \E j \in 1..Len(log) :
                IsFailureMsg(log[j]) /\ attempts[i].file \in log[j].names

\* C8: every part of every waveform handed to the exporter is non-empty and
\* has envelope gain 0 at its first and at its last sample (so the waveform is
\* zero at its start, its end and on both sides of each joint); victory is
\* three such parts; click is one part of 2400 samples.
C8_PartsEnvelopedToZero ==
    /\ Len(handed) = Len(attempts)
    /\ \A k \in 1..Len(handed) :
         /\ Len(handed[k]) >= 1
         /\ \A j \in 1..Len(handed[k]) :
              /\ handed[k][j].len > 0
              /\ handed[k][j].head = Zero
              /\ handed[k][j].tail = Zero
         /\ attempts[k].file = "victory.opus" => Len(handed[k]) = 3
         /\ attempts[k].file = "click.opus" =>
              Len(handed[k]) = 1 /\ attempts[k].nsamples = 2400

\* The arpeggio and the click have both been handed to the exporter.
C8_Witness ==
    /\ \E k \in 1..Len(attempts) :
         attempts[k].file = "victory.opus" /\ Len(handed[k]) = 3
    /\ \E k \in 1..Len(attempts) :
         attempts[k].file = "click.opus" /\ attempts[k].nsamples = 2400

\* C10 (as claimed): the success summary is in the log only when all eight
\* exports succeeded.
C10_SummaryOnlyOnSuccess ==
    (\E j \in 1..Len(log) : log[j] = SummaryMsg) =>
        /\ Len(attempts) = NumCues
        /\ \A i \in 1..Len(attempts) : attempts[i].outcome = "ok"

(***************************************************************************)
(* Claims about save_as_opus's conversion (SpecPcm).                       *)
(***************************************************************************)
Clip(t) == IF t > 32767 THEN 32767 ELSE IF t < -32767 THEN -32767 ELSE t

\* C4 (as claimed): every PCM value is the sample scaled by 32767, truncated
\* and clipped to [-32767, 32767].
C4_PcmSaturates ==
    pc = "ret" =>
        /\ Len(result.pcm) = Len(args.wave)
        /\ \A i \in 1..Len(args.wave) :
             /\ -32767 <= result.pcm[i] /\ result.pcm[i] <= 32767
             /\ result.pcm[i] = Clip(IntOf(RatMul(args.wave[i], Rat(PCM_SCALE, 1))))

(***************************************************************************)
(* Claims about the generators (SpecGen).                                  *)
(***************************************************************************)
\* C5 (as claimed): a sweep from f to f equals the tone of f sample by
\* sample, and its phase at sample index i (from 0) is f*i/SAMPLE_RATE cycles.
C5_DegenerateSweepIsTone ==
    (pc = "ret" /\ op = "generate_sweep" /\ args.f1 = args.f2) =>
        LET tone == GenerateTone(args.f1, args.dur, args.vol)
        IN  /\ Len(result) = Len(tone)
            /\ \A i \in 1..Len(result) :
                 /\ TermEq(result[i][1], tone[i][1])
                 /\ result[i][1].ph = Rat(args.f1 * (i - 1), SAMPLE_RATE)

\* C7 (as claimed): for duration > 0 each generator returns
\* round(SAMPLE_RATE * duration) samples.
C7_LengthIsRounded ==
    (pc = "ret" /\ args.dur[1] > 0) =>
        Len(result) = RoundOf(RatMul(Rat(SAMPLE_RATE, 1), args.dur))

(***************************************************************************)
(* Claims about apply_envelope (SpecEnvelope).                             *)
(***************************************************************************)
\* C6: when attack_samples + release_samples <= len(w), the call returns a
\* waveform of the same length whose samples from attack_samples to
\* len(w) - release_samples - 1 are those of w; with no attack and no release
\* samples it returns w.
C6_MiddleUnchanged ==
    LET n == Len(args.wave)
        a == SamplesOf(args.attack)
        r == SamplesOf(args.release)
    IN  (pc = "ret" /\ a + r <= n) =>
            /\ result.ok
            /\ Len(result.wave) = n
            /\ \A i \in (a + 1)..(n - r) : result.wave[i] = args.wave[i]
            /\ (a = 0 /\ r = 0) => result.wave = args.wave

\* Two attack and two release samples around an unchanged middle sample, the
\* first sample ramped to zero.
C6_Witness ==
    /\ pc = "ret"
    /\ Len(args.wave) = 5
    /\ SamplesOf(args.attack) = 2
    /\ SamplesOf(args.release) = 2
    /\ result.ok
    /\ result.wave[1] = Zero
    /\ result.wave[3] = args.wave[3]

AttackRamp(a, i) == IF a > 0 /\ i <= a THEN Linspace(Zero, One, a, i - 1) ELSE One
ReleaseRamp(n, r, i) ==
    IF r > 0 /\ i > n - r THEN Linspace(One, Zero, r, i - (n - r) - 1) ELSE One

\* C9 (as claimed): when attack_samples + release_samples > len(w) the call
\* does not fail and every sample is multiplied by the product of the attack
\* ramp and the release ramp at its index.
C9_OverlapComposes ==
    LET n == Len(args.wave)
        a == SamplesOf(args.attack)
        r == SamplesOf(args.release)
    IN  (pc = "ret" /\ a + r > n) =>
            /\ result.ok
            /\ Len(result.wave) = n
            /\ \A i \in 1..Len(result.wave) :
                 result.wave[i] =
                    RatMul(args.wave[i], RatMul(AttackRamp(a, i), ReleaseRamp(n, r, i)))

=============================================================================
